---- MODULE Spec2Model ----
(***************************************************************************)
(* State-machine model of src/src/ts/concurrency.ts (the priority task     *)
(* scheduler, debounce, debounceImmediate, throttle, throttleLeading, the  *)
(* promise sequencer, the concurrency limiter, cancelable promises,        *)
(* processInChunks) and of the core.async namespace concurrency.core in    *)
(* src/unnamed/part_000 (throttle, debounce, sequencer,                    *)
(* priority-scheduler, parallel-limit).                                    *)
(* Every component has its own specification; the variables of the other   *)
(* components stay frozen.                                                 *)
(***************************************************************************)
EXTENDS Integers, Sequences, FiniteSets

VARIABLES
  \* PriorityScheduler
  queues,        \* Map<Priority, Task[]>: lane -> sequence of task ids
  isProcessing,  \* the isProcessing flag
  pc,            \* where processNext is suspended: "idle", "running", "yielding"
  tasks,         \* every task handed to schedule(), in call order (id = index)
  outcome,       \* per task: "pending", "resolved" or "rejected" (its promise)
  started,       \* ids of the tasks in the order execute() was called
  freshTurn,     \* TRUE while the synchronous turn that built the scheduler runs
  activeLoops,   \* processNext() calls that are inside the while loop
  \* debounce(fn, delay)
  dDelay,        \* the delay argument
  dNow,          \* the clock, in ms since the wrapper was made
  dTimers,       \* the pending setTimeout timers: [id, due, args]
  dTimeoutId,    \* the timeoutId variable (0: undefined)
  dLog,          \* wrapper calls and fn invocations, in the order they ran
  \* throttle(fn, limit)
  tLimit,        \* the limit argument
  tNow,          \* Date.now()
  tLastCall,     \* the lastCall variable
  tLastResult,   \* the lastResult variable
  tLog,          \* wrapper calls in order: [t, args, invoked]
  \* createSequencer()
  sOps,          \* per submitted operation: [status, invoked, first, busyAtSubmit]
  sStarts,       \* operation ids in the order operation() was invoked
  \* createConcurrencyLimiter(limit)
  lLimit,        \* the limit argument
  lRunning,      \* the running counter
  lQueue,        \* the queue of closures (operation ids)
  lOps,          \* per submitted operation: [status, throws, order, waited]
  \* makeCancelable(promise), one instance per promise
  cUnder,        \* the underlying promise: [state, val]
  cWrapped,      \* makeCancelable(promise) has been called
  cCanceled,     \* the isCanceled flag
  cWrapper,      \* wrappedPromise: [state, val]
  cCancels,      \* number of cancel() calls so far
  cCancelsAtDelivery, \* cancel() calls made before the then-callback ran
  \* priority-scheduler (ClojureScript): [chans, worker, cur, tasks, taken, started]
  ps,
  \* parallel-limit (ClojureScript): [n, limit, fed, work, closed, workers, results, feeder, value, emitted]
  pl,
  \* debounce (ClojureScript): [ms, now, lastVal, due, pc, pending, inClosed, log]
  cd,
  \* throttle (ClojureScript): [ms, now, pc, val, due, log]
  ct,
  \* sequencer (ClojureScript): [queue, ops, worker, cur, started]
  cs,
  \* debounceImmediate(fn, delay): [delay, now, timers, timeoutId, isFirstCall, log]
  di,
  \* throttleLeading(fn, limit): [limit, now, lastCall, timers, timeoutId, log]
  tl,
  \* processInChunks(items, processor, chunkSize): [items, chunkSize, i, results, calls, yields, pc]
  ch

schedVars == <<queues, isProcessing, pc, tasks, outcome, started, freshTurn, activeLoops>>

debVars == <<dDelay, dNow, dTimers, dTimeoutId, dLog>>

thrVars == <<tLimit, tNow, tLastCall, tLastResult, tLog>>

seqVars == <<sOps, sStarts>>

limVars == <<lLimit, lRunning, lQueue, lOps>>

canVars == <<cUnder, cWrapped, cCanceled, cWrapper, cCancels, cCancelsAtDelivery>>

vars == <<schedVars, debVars, thrVars, seqVars, limVars, canVars, ps, pl, cd, ct, cs, di, tl, ch>>

\* the variables each component leaves alone
notSched == <<debVars, thrVars, seqVars, limVars, canVars, ps, pl, cd, ct, cs, di, tl, ch>>

notDeb == <<schedVars, thrVars, seqVars, limVars, canVars, ps, pl, cd, ct, cs, di, tl, ch>>

notThr == <<schedVars, debVars, seqVars, limVars, canVars, ps, pl, cd, ct, cs, di, tl, ch>>

notSeq == <<schedVars, debVars, thrVars, limVars, canVars, ps, pl, cd, ct, cs, di, tl, ch>>

notLim == <<schedVars, debVars, thrVars, seqVars, canVars, ps, pl, cd, ct, cs, di, tl, ch>>

notCan == <<schedVars, debVars, thrVars, seqVars, limVars, ps, pl, cd, ct, cs, di, tl, ch>>

notPs == <<schedVars, debVars, thrVars, seqVars, limVars, canVars, pl, cd, ct, cs, di, tl, ch>>

notSchedPs == <<debVars, thrVars, seqVars, limVars, canVars, pl, cd, ct, cs, di, tl, ch>>

notPl == <<schedVars, debVars, thrVars, seqVars, limVars, canVars, ps, cd, ct, cs, di, tl, ch>>

notCd == <<schedVars, debVars, thrVars, seqVars, limVars, canVars, ps, pl, ct, cs, di, tl, ch>>

notCt == <<schedVars, debVars, thrVars, seqVars, limVars, canVars, ps, pl, cd, cs, di, tl, ch>>

notCs == <<schedVars, debVars, thrVars, seqVars, limVars, canVars, ps, pl, cd, ct, di, tl, ch>>

notDi == <<schedVars, debVars, thrVars, seqVars, limVars, canVars, ps, pl, cd, ct, cs, tl, ch>>

notTl == <<schedVars, debVars, thrVars, seqVars, limVars, canVars, ps, pl, cd, ct, cs, di, ch>>

notCh == <<schedVars, debVars, thrVars, seqVars, limVars, canVars, ps, pl, cd, ct, cs, di, tl>>

-----------------------------------------------------------------------------
(* Bounds *)
MaxTasks == 3
MaxFailures == 1
MaxLiveTasks == 2
MaxCalls == 3
MaxTime == 5
MaxDelay == 2
MaxOps == 3
MaxLimit == 2
MaxPromises == 2
MaxCancels == 2

-----------------------------------------------------------------------------
(* PriorityScheduler *)

priorityOrder == <<"immediate", "high", "normal", "low", "idle">>

Priority == {priorityOrder[i] : i \in 1..Len(priorityOrder)}

\* position of a lane in priorityOrder (1 = drained first)
Rank(p) == CHOOSE i \in 1..Len(priorityOrder) : priorityOrder[i] = p

\* the priorities the explored callers pass to schedule(); getNextTask still
\* scans all five lanes
ScheduledPriorities == {"immediate", "normal", "low"}

\* execute() either returns (a value or a promise that settles later) or throws
ExecKind == {"returns", "throws"}

emptyQueues == [p \in Priority |-> <<>>]

\* the for-loop of getNextTask from index i of priorityOrder on
RECURSIVE scanLanes(_, _)
scanLanes(qs, i) ==
  IF i > Len(priorityOrder) THEN [lane |-> "none", id |-> 0, rest |-> qs]
  ELSE LET p == priorityOrder[i] IN
       IF Len(qs[p]) > 0
       THEN [lane |-> p, id |-> Head(qs[p]), rest |-> [qs EXCEPT ![p] = Tail(@)]]
       ELSE scanLanes(qs, i + 1)

\* faulty variant: the lanes are scanned from the last entry of priorityOrder backwards
RECURSIVE scanLanesBackwards(_, _)
scanLanesBackwards(qs, i) ==
  IF i < 1 THEN [lane |-> "none", id |-> 0, rest |-> qs]
  ELSE LET p == priorityOrder[i] IN
       IF Len(qs[p]) > 0
       THEN [lane |-> p, id |-> Head(qs[p]), rest |-> [qs EXCEPT ![p] = Tail(@)]]
       ELSE scanLanesBackwards(qs, i - 1)

getNextTask_lowestFirst(qs) == scanLanesBackwards(qs, Len(priorityOrder))

\* faulty variant: queue.pop() instead of queue.shift()
RECURSIVE scanLanesPop(_, _)
scanLanesPop(qs, i) ==
  IF i > Len(priorityOrder) THEN [lane |-> "none", id |-> 0, rest |-> qs]
  ELSE LET p == priorityOrder[i] IN
       IF Len(qs[p]) > 0
       THEN [lane |-> p, id |-> qs[p][Len(qs[p])],
             rest |-> [qs EXCEPT ![p] = SubSeq(@, 1, Len(@) - 1)]]
       ELSE scanLanesPop(qs, i + 1)

getNextTask_pop(qs) == scanLanesPop(qs, 1)

\* getNextTask(): the head of the first non-empty lane in priorityOrder
getNextTask(qs) == scanLanes(qs, 1)

\* One pass of the while loop of processNext, entered with the lanes qs:
\* take the next task and call execute(), or leave the loop.  loops: the
\* processNext() calls inside the loop during this pass.
LoopIteration(qs, tk, oc, loops) ==
  LET next == getNextTask(qs) IN
  IF next.lane = "none"
  THEN /\ isProcessing' = FALSE
       /\ pc' = "idle"
       /\ queues' = qs
       /\ outcome' = oc
       /\ started' = started
       /\ activeLoops' = loops - 1
  ELSE /\ isProcessing' = TRUE
       /\ activeLoops' = loops
       /\ queues' = next.rest
       /\ started' = Append(started, next.id)
       /\ IF tk[next.id].kind = "throws"
          THEN \* the catch block rejects, then the loop awaits yieldToMain()
               /\ outcome' = [oc EXCEPT ![next.id] = "rejected"]
               /\ pc' = "yielding"
          ELSE \* suspended at `await task.execute()`
               /\ outcome' = oc
               /\ pc' = "running"

\* faulty variant: no `if (this.isProcessing) return`
processNext_noGuard(qs, tk, oc) == LoopIteration(qs, tk, oc, activeLoops + 1)

\* processNext() called from schedule()
processNext(qs, tk, oc) ==
  IF isProcessing
  THEN /\ queues' = qs
       /\ outcome' = oc
       /\ UNCHANGED <<isProcessing, pc, started, activeLoops>>
  ELSE LoopIteration(qs, tk, oc, activeLoops + 1)

\* number of tasks that threw or whose promise rejected (bounded by MaxFailures)
failures ==
  Cardinality({i \in 1..Len(tasks) : tasks[i].kind = "throws" \/ outcome[i] = "rejected"})

\* schedule(priority, execute)
schedule(p, kind) ==
  /\ Len(tasks) < MaxTasks
  /\ kind = "throws" => failures < MaxFailures
  /\ LET id == Len(tasks) + 1
         t  == [priority |-> p, kind |-> kind, atStarted |-> Len(started),
                atPc |-> pc, fresh |-> freshTurn]
     IN /\ tasks' = Append(tasks, t)
        /\ processNext([queues EXCEPT ![p] = Append(@, id)],
                       Append(tasks, t), Append(outcome, "pending"))
  /\ UNCHANGED freshTurn

Schedule(p, kind) ==
  /\ schedule(p, kind)
  /\ UNCHANGED notSched

\* faulty variant: the loop takes the next task as soon as one settles
TaskSettle_noYield(ok) ==
  /\ pc = "running"
  /\ ~ok => failures < MaxFailures
  /\ ~freshTurn
  /\ LoopIteration(queues, tasks,
       [outcome EXCEPT ![started[Len(started)]] =
          IF ok THEN "resolved" ELSE "rejected"],
       activeLoops)
  /\ UNCHANGED <<tasks, freshTurn>>
  /\ UNCHANGED notSched

\* faulty variant: a rejection also rejects every task still waiting
TaskSettle_rejectsAll(ok) ==
  /\ pc = "running"
  /\ ~ok => failures < MaxFailures
  /\ ~freshTurn
  /\ outcome' = IF ok THEN [outcome EXCEPT ![started[Len(started)]] = "resolved"]
                ELSE [i \in 1..Len(outcome) |->
                        IF outcome[i] = "pending" THEN "rejected" ELSE outcome[i]]
  /\ pc' = "yielding"
  /\ UNCHANGED <<queues, isProcessing, tasks, started, freshTurn, activeLoops>>
  /\ UNCHANGED notSched

\* the awaited task.execute() settles: resolve or reject, then await yieldToMain()
TaskSettle(ok) ==
  /\ pc = "running"
  /\ ~ok => failures < MaxFailures
  /\ ~freshTurn
  /\ outcome' = [outcome EXCEPT ![started[Len(started)]] =
                   IF ok THEN "resolved" ELSE "rejected"]
  /\ pc' = "yielding"
  /\ UNCHANGED <<queues, isProcessing, tasks, started, freshTurn, activeLoops>>
  /\ UNCHANGED notSched

\* faulty variant: the loop ends after one task, whatever the lanes hold
YieldResume_leavesLoop ==
  /\ pc = "yielding"
  /\ ~freshTurn
  /\ isProcessing' = FALSE
  /\ pc' = "idle"
  /\ activeLoops' = activeLoops - 1
  /\ UNCHANGED <<queues, outcome, started, tasks, freshTurn>>
  /\ UNCHANGED notSched

\* yieldToMain() resolves: the loop goes round
YieldResume ==
  /\ pc = "yielding"
  /\ ~freshTurn
  /\ LoopIteration(queues, tasks, outcome, activeLoops)
  /\ UNCHANGED <<tasks, freshTurn>>
  /\ UNCHANGED notSched

\* the synchronous turn that constructed the scheduler ends (demo: the await
\* after the schedule() calls); continuations run only after it
EndTurn ==
  /\ freshTurn
  /\ freshTurn' = FALSE
  /\ UNCHANGED <<queues, isProcessing, pc, tasks, outcome, started, activeLoops>>
  /\ UNCHANGED notSched

SchedInit ==
  /\ queues = emptyQueues
  /\ isProcessing = FALSE
  /\ pc = "idle"
  /\ tasks = <<>>
  /\ outcome = <<>>
  /\ started = <<>>
  /\ freshTurn = TRUE
  /\ activeLoops = 0

SchedNext ==
  \/ \E p \in ScheduledPriorities, kind \in ExecKind : Schedule(p, kind)
  \/ \E ok \in BOOLEAN : TaskSettle(ok)
  \/ YieldResume
  \/ EndTurn

\* schedule() for the runs in which finitely many (MaxLiveTasks) tasks are
\* scheduled and every step that can be taken is taken in the end
LiveSchedule(p, kind) ==
  /\ Len(tasks) < MaxLiveTasks
  /\ Schedule(p, kind)

SchedLiveNext ==
  \/ \E p \in ScheduledPriorities, kind \in ExecKind : LiveSchedule(p, kind)
  \/ \E ok \in BOOLEAN : TaskSettle(ok)
  \/ YieldResume
  \/ EndTurn

\* every task terminates (its promise settles), yieldToMain() resolves, and
\* the turn that built the scheduler ends
SchedFairness ==
  /\ WF_vars(\E ok \in BOOLEAN : TaskSettle(ok))
  /\ WF_vars(YieldResume)
  /\ WF_vars(EndTurn)

-----------------------------------------------------------------------------
(* debounce *)

\* the arguments a call passes on
CallArgs == {"a", "b"}

wrapperCalls(log) == {i \in 1..Len(log) : log[i].kind = "call"}

\* faulty variant: the pending timer is not cleared
DebCall_noClear(a) ==
  /\ Cardinality(wrapperCalls(dLog)) < MaxCalls
  /\ LET id == Cardinality(wrapperCalls(dLog)) + 1 IN
       /\ dTimers' = dTimers \cup {[id |-> id, due |-> dNow + dDelay, args |-> a]}
       /\ dTimeoutId' = id
  /\ dLog' = Append(dLog, [kind |-> "call", t |-> dNow, args |-> a])
  /\ UNCHANGED <<dDelay, dNow>>
  /\ UNCHANGED notDeb

\* the debounced wrapper: clearTimeout(timeoutId); timeoutId = setTimeout(...)
DebCall(a) ==
  /\ Cardinality(wrapperCalls(dLog)) < MaxCalls
  /\ LET id == Cardinality(wrapperCalls(dLog)) + 1 IN
       /\ dTimers' = {tm \in dTimers : tm.id # dTimeoutId}
                       \cup {[id |-> id, due |-> dNow + dDelay, args |-> a]}
       /\ dTimeoutId' = id
  /\ dLog' = Append(dLog, [kind |-> "call", t |-> dNow, args |-> a])
  /\ UNCHANGED <<dDelay, dNow>>
  /\ UNCHANGED notDeb

\* a due timer runs its callback: fn(...args)
DebFire ==
  \E tm \in dTimers :
    /\ dNow >= tm.due
    /\ dTimers' = dTimers \ {tm}
    /\ dLog' = Append(dLog, [kind |-> "fire", t |-> dNow, args |-> tm.args])
    /\ UNCHANGED <<dDelay, dNow, dTimeoutId>>
    /\ UNCHANGED notDeb

\* a millisecond passes; a due timer runs before the clock moves on
DebTick ==
  /\ dNow < MaxTime
  /\ \A tm \in dTimers : dNow < tm.due
  /\ dNow' = dNow + 1
  /\ UNCHANGED <<dDelay, dTimers, dTimeoutId, dLog>>
  /\ UNCHANGED notDeb

DebInit ==
  /\ dDelay \in 1..MaxDelay
  /\ dNow = 0
  /\ dTimers = {}
  /\ dTimeoutId = 0
  /\ dLog = <<>>

\* the debounce state while another component is explored
DebOff ==
  /\ dDelay = 1
  /\ dNow = 0
  /\ dTimers = {}
  /\ dTimeoutId = 0
  /\ dLog = <<>>

DebNext ==
  \/ \E a \in CallArgs : DebCall(a)
  \/ DebFire
  \/ DebTick

-----------------------------------------------------------------------------
(* throttle *)

\* faulty variant: lastCall is not updated when fn is invoked
ThrCall_staleLastCall(a) ==
  /\ Len(tLog) < MaxCalls
  /\ IF tNow - tLastCall >= tLimit
     THEN /\ tLastCall' = tLastCall
          /\ tLastResult' = a
          /\ tLog' = Append(tLog, [t |-> tNow, args |-> a, invoked |-> TRUE])
     ELSE /\ UNCHANGED <<tLastCall, tLastResult>>
          /\ tLog' = Append(tLog, [t |-> tNow, args |-> a, invoked |-> FALSE])
  /\ UNCHANGED <<tLimit, tNow>>
  /\ UNCHANGED notThr

\* the throttled wrapper; fn returns its argument
ThrCall(a) ==
  /\ Len(tLog) < MaxCalls
  /\ IF tNow - tLastCall >= tLimit
     THEN /\ tLastCall' = tNow
          /\ tLastResult' = a
          /\ tLog' = Append(tLog, [t |-> tNow, args |-> a, invoked |-> TRUE])
     ELSE /\ UNCHANGED <<tLastCall, tLastResult>>
          /\ tLog' = Append(tLog, [t |-> tNow, args |-> a, invoked |-> FALSE])
  /\ UNCHANGED <<tLimit, tNow>>
  /\ UNCHANGED notThr

\* Date.now() moves on (it never goes back)
ThrTick ==
  /\ tNow < MaxTime
  /\ tNow' = tNow + 1
  /\ UNCHANGED <<tLimit, tLastCall, tLastResult, tLog>>
  /\ UNCHANGED notThr

ThrInit ==
  /\ tLimit \in 0..MaxDelay
  /\ tNow \in 0..MaxDelay
  /\ tLastCall = 0
  /\ tLastResult = "undefined"
  /\ tLog = <<>>

ThrOff ==
  /\ tLimit = 0
  /\ tNow = 0
  /\ tLastCall = 0
  /\ tLastResult = "undefined"
  /\ tLog = <<>>

ThrNext ==
  \/ \E a \in CallArgs : ThrCall(a)
  \/ ThrTick

-----------------------------------------------------------------------------
(* createSequencer *)

\* the state of `pending` after k submissions (k = 0: Promise.resolve())
pendingState(ops, k) ==
  IF k = 0 THEN "fulfilled"
  ELSE IF ops[k].status \in {"fulfilled", "rejected"} THEN ops[k].status
  ELSE "pending"

\* the returned function: pending = pending.then(operation).catch(() => operation())
SeqSubmit ==
  /\ Len(sOps) < MaxOps
  /\ sOps' = Append(sOps, [status |-> "waiting", invoked |-> 0, first |-> "none",
                           busyAtSubmit |-> pendingState(sOps, Len(sOps)) = "pending"])
  /\ UNCHANGED sStarts
  /\ UNCHANGED notSeq

\* faulty variant: operation() is invoked without waiting for `pending`
SeqReact_noWait(k) ==
  /\ sOps[k].status = "waiting"
  /\ sOps' = [sOps EXCEPT ![k].status = "then", ![k].invoked = @ + 1]
  /\ sStarts' = Append(sStarts, k)
  /\ UNCHANGED notSeq

\* the previous `pending` has settled: .then(operation) invokes operation when
\* it fulfilled; when it rejected the rejection passes to .catch, whose
\* handler invokes operation
SeqReact(k) ==
  /\ sOps[k].status = "waiting"
  /\ pendingState(sOps, k - 1) # "pending"
  /\ sOps' = [sOps EXCEPT
                ![k].status = IF pendingState(sOps, k - 1) = "fulfilled"
                              THEN "then" ELSE "catch",
                ![k].invoked = @ + 1]
  /\ sStarts' = Append(sStarts, k)
  /\ UNCHANGED notSeq

\* the promise of the running invocation of operation k settles
\* (first: how the first invocation of the operation ended)
SeqSettle(k, ok) ==
  /\ sOps[k].status \in {"then", "catch"}
  /\ IF ok
     THEN /\ sOps' = [sOps EXCEPT ![k].status = "fulfilled",
                                  ![k].first = IF @ = "none" THEN "fulfilled" ELSE @]
          /\ UNCHANGED sStarts
     ELSE IF sOps[k].status = "then"
          THEN \* the rejection reaches .catch(() => operation())
               /\ sOps' = [sOps EXCEPT ![k].status = "catch", ![k].invoked = @ + 1,
                                       ![k].first = "rejected"]
               /\ sStarts' = Append(sStarts, k)
          ELSE /\ sOps' = [sOps EXCEPT ![k].status = "rejected",
                                       ![k].first = IF @ = "none" THEN "rejected" ELSE @]
               /\ UNCHANGED sStarts
  /\ UNCHANGED notSeq

SeqInit ==
  /\ sOps = <<>>
  /\ sStarts = <<>>

SeqNext ==
  \/ SeqSubmit
  \/ \E k \in 1..Len(sOps) : SeqReact(k)
  \/ \E k \in 1..Len(sOps), ok \in BOOLEAN : SeqSettle(k, ok)

\* promise reactions run, and the promise of a running invocation settles
SeqFairness ==
  /\ WF_vars(\E k \in 1..Len(sOps) : SeqReact(k))
  /\ WF_vars(\E k \in 1..Len(sOps), ok \in BOOLEAN : SeqSettle(k, ok))

-----------------------------------------------------------------------------
(* createConcurrencyLimiter *)

RECURSIVE runNext(_, _)
RECURSIVE runClosure(_, _, _)
RECURSIVE runNext_offByOne(_, _)
RECURSIVE runNext_pop(_, _)

\* the operations whose closure has been called
startedOps(ops) == {j \in 1..Len(ops) : ops[j].order > 0}

\* the queued closure of operation k: await operation() inside try/catch/finally;
\* an operation that throws is rejected at once and the finally block runs
runClosure(limit, st, k) ==
  IF st.ops[k].throws
  THEN runNext(limit, [running |-> st.running - 1,
                       queue   |-> st.queue,
                       ops     |-> [st.ops EXCEPT ![k].status = "rejected"]])
  ELSE [st EXCEPT !.ops[k].status = "inflight"]

\* faulty variant: queue.pop() instead of queue.shift()
runNext_pop(limit, st) ==
  IF st.running < limit /\ Len(st.queue) > 0
  THEN LET k == st.queue[Len(st.queue)] IN
       runClosure(limit, [running |-> st.running + 1,
                          queue   |-> SubSeq(st.queue, 1, Len(st.queue) - 1),
                          ops     |-> [st.ops EXCEPT ![k].order =
                                         Cardinality(startedOps(st.ops)) + 1]], k)
  ELSE st

\* faulty variant: running <= limit
runNext_offByOne(limit, st) ==
  IF st.running <= limit /\ Len(st.queue) > 0
  THEN runClosure(limit, [running |-> st.running + 1,
                          queue   |-> Tail(st.queue),
                          ops     |-> [st.ops EXCEPT ![Head(st.queue)].order =
                                         Cardinality(startedOps(st.ops)) + 1]],
                  Head(st.queue))
  ELSE st

\* runNext()
runNext(limit, st) ==
  IF st.running < limit /\ Len(st.queue) > 0
  THEN runClosure(limit, [running |-> st.running + 1,
                          queue   |-> Tail(st.queue),
                          ops     |-> [st.ops EXCEPT ![Head(st.queue)].order =
                                         Cardinality(startedOps(st.ops)) + 1]],
                  Head(st.queue))
  ELSE st

\* the returned function: queue.push(closure); runNext()
\* order: the position of the operation among the started ones (0: not yet);
\* waited: the call returned with the closure still in the queue
LimSubmit(throws) ==
  /\ Len(lOps) < MaxOps
  /\ LET id == Len(lOps) + 1
         st == runNext(lLimit,
                 [running |-> lRunning,
                  queue   |-> Append(lQueue, id),
                  ops     |-> Append(lOps, [status |-> "queued", throws |-> throws,
                                            order |-> 0, waited |-> FALSE])])
     IN /\ lRunning' = st.running
        /\ lQueue' = st.queue
        /\ lOps' = [st.ops EXCEPT ![id].waited = (st.ops[id].status = "queued")]
  /\ UNCHANGED lLimit
  /\ UNCHANGED notLim

\* faulty variant: the finally block does not call runNext()
LimSettle_noRunNext(k, ok) ==
  /\ lOps[k].status = "inflight"
  /\ lRunning' = lRunning - 1
  /\ lOps' = [lOps EXCEPT ![k].status = IF ok THEN "resolved" ELSE "rejected"]
  /\ UNCHANGED <<lLimit, lQueue>>
  /\ UNCHANGED notLim

\* faulty variant: a rejection skips the finally block
LimSettle_leaksOnReject(k, ok) ==
  /\ lOps[k].status = "inflight"
  /\ LET st == IF ok
               THEN runNext(lLimit, [running |-> lRunning - 1, queue |-> lQueue,
                                     ops |-> [lOps EXCEPT ![k].status = "resolved"]])
               ELSE [running |-> lRunning, queue |-> lQueue,
                     ops |-> [lOps EXCEPT ![k].status = "rejected"]]
     IN /\ lRunning' = st.running
        /\ lQueue' = st.queue
        /\ lOps' = st.ops
  /\ UNCHANGED lLimit
  /\ UNCHANGED notLim

\* the awaited operation() of k settles: resolve or reject, then the finally
\* block: running--; runNext()
LimSettle(k, ok) ==
  /\ lOps[k].status = "inflight"
  /\ LET st == runNext(lLimit,
                 [running |-> lRunning - 1,
                  queue   |-> lQueue,
                  ops     |-> [lOps EXCEPT ![k].status =
                                 IF ok THEN "resolved" ELSE "rejected"]])
     IN /\ lRunning' = st.running
        /\ lQueue' = st.queue
        /\ lOps' = st.ops
  /\ UNCHANGED lLimit
  /\ UNCHANGED notLim

LimInit ==
  /\ lLimit \in 0..MaxLimit
  /\ lRunning = 0
  /\ lQueue = <<>>
  /\ lOps = <<>>

LimOff ==
  /\ lLimit = 0
  /\ lRunning = 0
  /\ lQueue = <<>>
  /\ lOps = <<>>

LimNext ==
  \/ \E throws \in BOOLEAN : LimSubmit(throws)
  \/ \E k \in 1..Len(lOps), ok \in BOOLEAN : LimSettle(k, ok)

\* the operations in flight settle
LimFairness == WF_vars(\E k \in 1..Len(lOps), ok \in BOOLEAN : LimSettle(k, ok))

-----------------------------------------------------------------------------
(* makeCancelable *)

Promises == 1..MaxPromises

Values == {"v1", "v2"}

Errors == {"e1", "e2"}

pendingPromise == [state |-> "pending", val |-> "none"]

canceledRejection == [state |-> "rejected", val |-> "isCanceled"]

\* (val) => (isCanceled ? reject({ isCanceled: true }) : resolve(val))
onFulfilled(isCanceled, val) ==
  IF isCanceled THEN canceledRejection ELSE [state |-> "resolved", val |-> val]

\* faulty variant: the rejection handler does not look at isCanceled
onRejected_ignoresCancel(isCanceled, error) ==
  [state |-> "rejected", val |-> error]

\* (error) => (isCanceled ? reject({ isCanceled: true }) : reject(error))
onRejected(isCanceled, error) ==
  IF isCanceled THEN canceledRejection ELSE [state |-> "rejected", val |-> error]

\* the underlying promise settles (before or after it is wrapped)
UnderSettle(i, st, v) ==
  /\ cUnder[i].state = "pending"
  /\ cUnder' = [cUnder EXCEPT ![i] = [state |-> st, val |-> v]]
  /\ UNCHANGED <<cWrapped, cCanceled, cWrapper, cCancels, cCancelsAtDelivery>>
  /\ UNCHANGED notCan

\* makeCancelable(promise)
MakeCancelable(i) ==
  /\ ~cWrapped[i]
  /\ cWrapped' = [cWrapped EXCEPT ![i] = TRUE]
  /\ cCanceled' = [cCanceled EXCEPT ![i] = FALSE]
  /\ UNCHANGED <<cUnder, cWrapper, cCancels, cCancelsAtDelivery>>
  /\ UNCHANGED notCan

\* faulty variant: cancel() rejects the wrapper at once
Cancel_rejectsNow(i) ==
  /\ cWrapped[i]
  /\ cCancels[i] < MaxCancels
  /\ cCanceled' = [cCanceled EXCEPT ![i] = TRUE]
  /\ cCancels' = [cCancels EXCEPT ![i] = @ + 1]
  /\ cWrapper' = [cWrapper EXCEPT ![i] =
                    IF @.state = "pending" THEN canceledRejection ELSE @]
  /\ UNCHANGED <<cUnder, cWrapped, cCancelsAtDelivery>>
  /\ UNCHANGED notCan

\* wrappedPromise.cancel()
Cancel(i) ==
  /\ cWrapped[i]
  /\ cCancels[i] < MaxCancels
  /\ cCanceled' = [cCanceled EXCEPT ![i] = TRUE]
  /\ cCancels' = [cCancels EXCEPT ![i] = @ + 1]
  /\ UNCHANGED <<cUnder, cWrapped, cWrapper, cCancelsAtDelivery>>
  /\ UNCHANGED notCan

\* the callbacks of promise.then(...) run: the settlement is delivered
Deliver(i) ==
  /\ cWrapped[i]
  /\ cUnder[i].state # "pending"
  /\ cWrapper[i].state = "pending"
  /\ cWrapper' = [cWrapper EXCEPT ![i] =
                    IF cUnder[i].state = "fulfilled"
                    THEN onFulfilled(cCanceled[i], cUnder[i].val)
                    ELSE onRejected(cCanceled[i], cUnder[i].val)]
  /\ cCancelsAtDelivery' = [cCancelsAtDelivery EXCEPT ![i] = cCancels[i]]
  /\ UNCHANGED <<cUnder, cWrapped, cCanceled, cCancels>>
  /\ UNCHANGED notCan

CanInit ==
  /\ cUnder = [i \in Promises |-> pendingPromise]
  /\ cWrapped = [i \in Promises |-> FALSE]
  /\ cCanceled = [i \in Promises |-> FALSE]
  /\ cWrapper = [i \in Promises |-> pendingPromise]
  /\ cCancels = [i \in Promises |-> 0]
  /\ cCancelsAtDelivery = [i \in Promises |-> 0]

CanNext ==
  \/ \E i \in Promises, v \in Values : UnderSettle(i, "fulfilled", v)
  \/ \E i \in Promises, e \in Errors : UnderSettle(i, "rejected", e)
  \/ \E i \in Promises : MakeCancelable(i)
  \/ \E i \in Promises : Cancel(i)
  \/ \E i \in Promises : Deliver(i)

-----------------------------------------------------------------------------
(* priority-scheduler (ClojureScript, core.async) *)

\* the channels in the order of the worker's alts! vector
priorityChannels == <<"immediate", "high", "normal", "low", "idle">>

\* (alts! [...] :priority true) over the channel contents chs, from index i of
\* the vector on: the first channel that holds a value
RECURSIVE altsScan(_, _)
altsScan(chs, i) ==
  IF i > Len(priorityChannels) THEN [lane |-> "none", id |-> 0, rest |-> chs]
  ELSE LET c == priorityChannels[i] IN
       IF Len(chs[c]) > 0
       THEN [lane |-> c, id |-> Head(chs[c]), rest |-> [chs EXCEPT ![c] = Tail(@)]]
       ELSE altsScan(chs, i + 1)

\* faulty variant: the channels are tried from the end of the vector
RECURSIVE altsScanBackwards(_, _)
altsScanBackwards(chs, i) ==
  IF i < 1 THEN [lane |-> "none", id |-> 0, rest |-> chs]
  ELSE LET c == priorityChannels[i] IN
       IF Len(chs[c]) > 0
       THEN [lane |-> c, id |-> Head(chs[c]), rest |-> [chs EXCEPT ![c] = Tail(@)]]
       ELSE altsScanBackwards(chs, i - 1)

altsPriority_lastFirst(chs) == altsScanBackwards(chs, Len(priorityChannels))

altsPriority(chs) == altsScan(chs, 1)

\* The worker's go-loop.  psLoop: from its alts! on; psExec: from (task) on,
\* for the task id just taken.  A task that throws is caught and the loop
\* recurs at once; otherwise the worker parks on the task's channel.
\* chs: channel contents, tk: the tasks, tkn: ids in take order, st: ids in
\* the order (task) was called.
RECURSIVE psLoop(_, _, _, _)
RECURSIVE psExec(_, _, _, _, _)
psExec(id, chs, tk, tkn, st) ==
  IF tk[id].kind = "throws"
  THEN psLoop(chs, tk, tkn, Append(st, id))
  ELSE [chans |-> chs, worker |-> "running", cur |-> id,
        taken |-> tkn, started |-> Append(st, id)]

psLoop(chs, tk, tkn, st) ==
  LET next == altsPriority(chs) IN
  IF next.lane = "none"
  THEN [chans |-> chs, worker |-> "parked", cur |-> 0, taken |-> tkn, started |-> st]
  ELSE psExec(next.id, next.rest, tk, Append(tkn, next.id), st)

\* the scheduler state after the worker ran up to its next park
psAfter(r, tk) ==
  [chans |-> r.chans, worker |-> r.worker, cur |-> r.cur, tasks |-> tk,
   taken |-> r.taken, started |-> r.started]

psThrowing == Cardinality({i \in 1..Len(ps.tasks) : ps.tasks[i].kind = "throws"})

\* (schedule-<p> task): put! on the channel of p.  A worker parked at alts!
\* is handed the value at once and resumes with it on a later tick.
putTask(p, kind) ==
  /\ Len(ps.tasks) < MaxTasks
  /\ kind = "throws" => psThrowing < MaxFailures
  /\ LET id == Len(ps.tasks) + 1
         t  == [priority |-> p, kind |-> kind, atTaken |-> Len(ps.taken),
                atWorker |-> ps.worker]
     IN IF ps.worker = "parked"
        THEN ps' = [ps EXCEPT !.tasks = Append(@, t), !.worker = "woken",
                              !.cur = id, !.taken = Append(@, id)]
        ELSE ps' = [ps EXCEPT !.tasks = Append(@, t), !.chans[p] = Append(@, id)]

PsPut(p, kind) ==
  /\ putTask(p, kind)
  /\ UNCHANGED notPs

\* the go block of the worker is dispatched: it runs to its first park
PsWorkerStart ==
  /\ ps.worker = "unstarted"
  /\ ps' = psAfter(psLoop(ps.chans, ps.tasks, ps.taken, ps.started), ps.tasks)
  /\ UNCHANGED notPs

\* the worker resumes with the value its parked alts! was handed
PsWake ==
  /\ ps.worker = "woken"
  /\ ps' = psAfter(psExec(ps.cur, ps.chans, ps.tasks, ps.taken, ps.started), ps.tasks)
  /\ UNCHANGED notPs

\* (<! (task)) returns: result-ch is nil, so the loop recurs
PsTaskDone ==
  /\ ps.worker = "running"
  /\ ps' = psAfter(psLoop(ps.chans, ps.tasks, ps.taken, ps.started), ps.tasks)
  /\ UNCHANGED notPs

PsInit ==
  ps = [chans |-> [c \in Priority |-> <<>>], worker |-> "unstarted", cur |-> 0,
        tasks |-> <<>>, taken |-> <<>>, started |-> <<>>]

PsNext ==
  \/ \E p \in ScheduledPriorities, kind \in ExecKind : PsPut(p, kind)
  \/ PsWorkerStart
  \/ PsWake
  \/ PsTaskDone

-----------------------------------------------------------------------------
(* PriorityScheduler and priority-scheduler, given the same schedule calls *)

\* one schedule call issued to both schedulers in the synchronous turn that
\* built them
EqSchedule(p, kind) ==
  /\ freshTurn
  /\ ps.worker = "unstarted"
  /\ schedule(p, kind)
  /\ putTask(p, kind)
  /\ UNCHANGED notSchedPs

\* the worker's go block runs on a tick after that turn
EqWorkerStart ==
  /\ ~freshTurn
  /\ PsWorkerStart

EqInit == SchedInit /\ PsInit

EqNext ==
  \/ \E p \in ScheduledPriorities, kind \in ExecKind : EqSchedule(p, kind)
  \/ EndTurn
  \/ \E ok \in BOOLEAN : TaskSettle(ok)
  \/ YieldResume
  \/ EqWorkerStart
  \/ PsTaskDone

-----------------------------------------------------------------------------
(* parallel-limit (ClojureScript, core.async) *)

\* the value operation idx yields on its channel
resultOf(idx) == idx + 100

\* (assoc v idx x) on a vector: replaces below count, appends at count, and
\* throws "index out of bounds" beyond it
assocThrows(v, idx) == idx > Len(v)

assoc(v, idx, x) ==
  IF idx < Len(v) THEN [v EXCEPT ![idx + 1] = x] ELSE Append(v, x)

\* the feeding go block: (>! work-ch {:idx idx :op op}) while the buffer of
\* work-ch (chan limit) has room
PlFeed ==
  /\ pl.feeder = "feeding"
  /\ pl.fed < pl.n
  /\ Len(pl.work) < pl.limit
  /\ pl' = [pl EXCEPT !.work = Append(@, pl.fed), !.fed = @ + 1]
  /\ UNCHANGED notPl

\* every operation is queued: (close! work-ch), then (<! (timeout 100))
PlClose ==
  /\ pl.feeder = "feeding"
  /\ pl.fed = pl.n
  /\ pl' = [pl EXCEPT !.closed = TRUE, !.feeder = "waiting"]
  /\ UNCHANGED notPl

\* worker k takes the next operation from work-ch and calls (op)
PlTake(k) ==
  /\ k <= pl.limit
  /\ pl.workers[k].st = "idle"
  /\ pl.work # <<>>
  /\ pl' = [pl EXCEPT !.work = Tail(@),
                      !.workers[k] = [st |-> "running", idx |-> Head(pl.work)]]
  /\ UNCHANGED notPl

\* worker k finds work-ch closed and empty: when-let fails, the loop ends
PlExit(k) ==
  /\ k <= pl.limit
  /\ pl.workers[k].st = "idle"
  /\ pl.work = <<>>
  /\ pl.closed
  /\ pl' = [pl EXCEPT !.workers[k].st = "exited"]
  /\ UNCHANGED notPl

\* the operation of worker k yields its result, after any duration:
\* (swap! results assoc idx result); an exception ends the worker's go block
PlOpDone(k) ==
  /\ k <= pl.limit
  /\ pl.workers[k].st = "running"
  /\ LET idx == pl.workers[k].idx IN
     IF assocThrows(pl.results, idx)
     THEN pl' = [pl EXCEPT !.workers[k].st = "dead"]
     ELSE pl' = [pl EXCEPT !.workers[k].st = "idle",
                           !.results = assoc(@, idx, resultOf(idx))]
  /\ UNCHANGED notPl

\* The 100 ms timeout fires.  Taking from work-ch takes no time, so no worker
\* is still to take an operation; the operations themselves take any time and
\* may still run.  (>! result-ch @results) offers the vector as it is now.
PlTimeout ==
  /\ pl.feeder = "waiting"
  /\ \A k \in 1..pl.limit : pl.workers[k].st = "idle" => pl.work = <<>>
  /\ pl' = [pl EXCEPT !.feeder = "emitting", !.value = pl.results]
  /\ UNCHANGED notPl

\* the caller takes from result-ch; (close! result-ch)
PlDeliver ==
  /\ pl.feeder = "emitting"
  /\ pl' = [pl EXCEPT !.feeder = "done", !.emitted = TRUE]
  /\ UNCHANGED notPl

plStart(n, limit) ==
  [n |-> n, limit |-> limit, fed |-> 0, work |-> <<>>, closed |-> FALSE,
   workers |-> [k \in 1..limit |-> [st |-> "idle", idx |-> 0]],
   results |-> <<>>, feeder |-> "feeding", value |-> <<>>, emitted |-> FALSE]

PlInit == \E n \in 0..MaxOps, limit \in 1..MaxLimit : pl = plStart(n, limit)

PlOff == pl = plStart(0, 1)

PlNext ==
  \/ PlFeed
  \/ PlClose
  \/ \E k \in 1..MaxLimit : PlTake(k)
  \/ \E k \in 1..MaxLimit : PlExit(k)
  \/ \E k \in 1..MaxLimit : PlOpDone(k)
  \/ PlTimeout
  \/ PlDeliver

-----------------------------------------------------------------------------
(* debounce (ClojureScript, core.async) *)

\* the values a producer puts on in-ch; nil is what a closed channel yields
ChanValues == {"a", "b", "false"}

\* the cond test `last-val`: nil and false fail it
truthy(v) == v # "nil" /\ v # "false"

cdInputs(log) == Cardinality({i \in 1..Len(log) : log[i].kind = "in"})

\* the "in" entries of the values vs that the loop takes at time t, one alts!
\* after the other
cdTakes(vs, t) == [i \in 1..Len(vs) |-> [kind |-> "in", t |-> t, val |-> vs[i]]]

\* faulty variant: one timeout for the whole loop, not restarted by a value
CdIn_keepsTimer(v) ==
  /\ cd.pc \in {"alts", "putting"}
  /\ ~cd.inClosed
  /\ cdInputs(cd.log) + Len(cd.pending) < MaxCalls
  /\ IF cd.pc = "alts"
     THEN cd' = [cd EXCEPT !.lastVal = v,
                           !.log = Append(@, [kind |-> "in", t |-> cd.now, val |-> v])]
     ELSE cd' = [cd EXCEPT !.pending = Append(@, v)]
  /\ UNCHANGED notCd

\* A producer puts v on in-ch.  The loop parked at alts! takes it at once:
\* (recur val), and the next alts! starts a new (timeout ms).  While the loop
\* is parked on (>! out-ch last-val) the put waits on in-ch.
CdIn(v) ==
  /\ cd.pc \in {"alts", "putting"}
  /\ ~cd.inClosed
  /\ cdInputs(cd.log) + Len(cd.pending) < MaxCalls
  /\ IF cd.pc = "alts"
     THEN cd' = [cd EXCEPT !.lastVal = v, !.due = cd.now + cd.ms,
                           !.log = Append(@, [kind |-> "in", t |-> cd.now, val |-> v])]
     ELSE cd' = [cd EXCEPT !.pending = Append(@, v)]
  /\ UNCHANGED notCd

\* in-ch is closed: alts! yields nil from in-ch and the loop closes out-ch
\* (a stored last-val is not emitted)
CdCloseIn ==
  /\ cd.pc \in {"alts", "putting"}
  /\ ~cd.inClosed
  /\ cd' = [cd EXCEPT !.inClosed = TRUE,
                      !.pc = IF cd.pc = "alts" THEN "closed" ELSE @]
  /\ UNCHANGED notCd

\* the timeout channel of the current alts! closes
CdTimeout ==
  /\ cd.pc = "alts"
  /\ cd.now >= cd.due
  /\ IF truthy(cd.lastVal)
     THEN cd' = [cd EXCEPT !.pc = "putting",
                           !.log = Append(@, [kind |-> "out", t |-> cd.now, val |-> cd.lastVal])]
     ELSE cd' = [cd EXCEPT !.lastVal = "nil", !.due = cd.now + cd.ms]
  /\ UNCHANGED notCd

\* The consumer takes the value from out-ch: (recur nil).  The puts waiting on
\* in-ch are then taken one alts! after the other, each restarting the
\* timeout; a closed in-ch ends the loop after them.
CdTaken ==
  /\ cd.pc = "putting"
  /\ cd' = [cd EXCEPT
       !.lastVal = IF cd.pending = <<>> THEN "nil" ELSE cd.pending[Len(cd.pending)],
       !.pending = <<>>,
       !.due = cd.now + cd.ms,
       !.pc = IF cd.inClosed THEN "closed" ELSE "alts",
       !.log = @ \o cdTakes(cd.pending, cd.now)]
  /\ UNCHANGED notCd

\* 1 ms passes; a due timeout is not passed over
CdTick ==
  /\ cd.pc \in {"alts", "putting"}
  /\ cd.now < MaxTime
  /\ cd.pc = "alts" => cd.now < cd.due
  /\ cd' = [cd EXCEPT !.now = @ + 1]
  /\ UNCHANGED notCd

\* (debounce in-ch ms): the loop at its first alts!
cdStart(ms) ==
  [ms |-> ms, now |-> 0, lastVal |-> "nil", due |-> ms, pc |-> "alts",
   pending |-> <<>>, inClosed |-> FALSE, log |-> <<>>]

CdInit == \E ms \in 1..MaxDelay : cd = cdStart(ms)

CdOff == cd = cdStart(1)

CdNext ==
  \/ \E v \in ChanValues : CdIn(v)
  \/ CdCloseIn
  \/ CdTimeout
  \/ CdTaken
  \/ CdTick

-----------------------------------------------------------------------------
(* throttle (ClojureScript, core.async) *)

ctInputs(log) == Cardinality({i \in 1..Len(log) : log[i].kind = "in"})

\* a producer puts v on in-ch and the loop, parked at (<! in-ch), takes it;
\* the loop then parks on (>! out-ch val)
CtIn(v) ==
  /\ ct.pc = "take"
  /\ ctInputs(ct.log) < MaxCalls
  /\ ct' = [ct EXCEPT !.pc = "put", !.val = v,
                      !.log = Append(@, [kind |-> "in", t |-> ct.now, val |-> v])]
  /\ UNCHANGED notCt

\* in-ch is closed: when-let fails, (close! out-ch)
CtCloseIn ==
  /\ ct.pc = "take"
  /\ ct' = [ct EXCEPT !.pc = "closed"]
  /\ UNCHANGED notCt

\* faulty variant: the loop recurs without (<! (timeout ms))
CtDeliver_noWait ==
  /\ ct.pc = "put"
  /\ ct' = [ct EXCEPT !.pc = "take",
                      !.log = Append(@, [kind |-> "out", t |-> ct.now, val |-> ct.val])]
  /\ UNCHANGED notCt

\* the consumer takes the value from out-ch; the loop starts (timeout ms)
CtDeliver ==
  /\ ct.pc = "put"
  /\ ct' = [ct EXCEPT !.pc = "wait", !.due = ct.now + ct.ms,
                      !.log = Append(@, [kind |-> "out", t |-> ct.now, val |-> ct.val])]
  /\ UNCHANGED notCt

\* the timeout channel closes: (recur)
CtTimeout ==
  /\ ct.pc = "wait"
  /\ ct.now >= ct.due
  /\ ct' = [ct EXCEPT !.pc = "take"]
  /\ UNCHANGED notCt

\* 1 ms passes; a due timeout is not passed over
CtTick ==
  /\ ct.pc # "closed"
  /\ ct.now < MaxTime
  /\ ct.pc = "wait" => ct.now < ct.due
  /\ ct' = [ct EXCEPT !.now = @ + 1]
  /\ UNCHANGED notCt

\* (throttle in-ch ms): the loop at its first (<! in-ch)
ctStart(ms) ==
  [ms |-> ms, now |-> 0, pc |-> "take", val |-> "nil", due |-> 0, log |-> <<>>]

CtInit == \E ms \in 1..MaxDelay : ct = ctStart(ms)

CtOff == ct = ctStart(1)

CtNext ==
  \/ \E v \in ChanValues : CtIn(v)
  \/ CtCloseIn
  \/ CtDeliver
  \/ CtTimeout
  \/ CtTick

-----------------------------------------------------------------------------
(* sequencer (ClojureScript, core.async) *)

\* (operation) returns a channel that yields a value, returns a channel that
\* yields nil (closed without a value), or throws a js/Error
OpKind == {"value", "nil", "throws"}

\* (>! result-ch v) followed by (close! result-ch): result-ch is (chan 1), so
\* the put does not park
csPutClose(op, v) == [op EXCEPT !.status = "done", !.puts = @ + 1, !.val = v, !.closed = TRUE]

RECURSIVE csLoop(_, _, _)
RECURSIVE csExec(_, _, _, _)
RECURSIVE csExec_noWait(_, _, _, _)
\* faulty variant: the worker does not wait for the operation's channel
csExec_noWait(id, q, ops, st) ==
  IF ops[id].kind = "throws"
  THEN csLoop(q, [ops EXCEPT ![id] = csPutClose(@, "error")], Append(st, id))
  ELSE csLoop(q, [ops EXCEPT ![id].status = "running"], Append(st, id))

\* The worker from (operation) on, for the entry id just taken from queue-ch.
\* A throw is caught: {:error ..} is put, result-ch closed, and the loop recurs;
\* otherwise the worker parks on the operation's channel.
\* q: the puts waiting on queue-ch, st: ids in the order (operation) was called
csExec(id, q, ops, st) ==
  IF ops[id].kind = "throws"
  THEN csLoop(q, [ops EXCEPT ![id] = csPutClose(@, "error")], Append(st, id))
  ELSE [queue |-> q, ops |-> [ops EXCEPT ![id].status = "running"],
        worker |-> "running", cur |-> id, started |-> Append(st, id)]

\* the worker from (<! queue-ch) on
csLoop(q, ops, st) ==
  IF q = <<>>
  THEN [queue |-> q, ops |-> ops, worker |-> "parked", cur |-> 0, started |-> st]
  ELSE csExec(Head(q), Tail(q), ops, st)

\* The function the sequencer returns: result-ch (chan 1), put! on queue-ch.
\* A worker parked at (<! queue-ch) is handed the entry and resumes with it on
\* a later tick.
CsSubmit(kind) ==
  /\ Len(cs.ops) < MaxOps
  /\ LET id == Len(cs.ops) + 1
         op == [kind |-> kind, status |-> "queued", puts |-> 0, val |-> "none",
                closed |-> FALSE]
     IN IF cs.worker = "parked"
        THEN cs' = [cs EXCEPT !.ops = Append(@, op), !.worker = "woken", !.cur = id]
        ELSE cs' = [cs EXCEPT !.ops = Append(@, op), !.queue = Append(@, id)]
  /\ UNCHANGED notCs

\* the worker's go block is dispatched: it runs to its first park
CsWorkerStart ==
  /\ cs.worker = "unstarted"
  /\ cs' = csLoop(cs.queue, cs.ops, cs.started)
  /\ UNCHANGED notCs

\* the worker resumes with the entry its parked take was handed
CsWake ==
  /\ cs.worker = "woken"
  /\ cs' = csExec(cs.cur, cs.queue, cs.ops, cs.started)
  /\ UNCHANGED notCs

\* The channel of the running operation k yields.  A value is put on
\* result-ch; nil makes (>! result-ch nil) throw, which the catch turns into
\* {:error ..}.  Then (close! result-ch) and (recur).
CsOpDone(k) ==
  /\ k \in 1..Len(cs.ops)
  /\ cs.ops[k].status = "running"
  /\ LET v   == IF cs.ops[k].kind = "value" THEN "result" ELSE "error"
         ops == [cs.ops EXCEPT ![k] = csPutClose(@, v)]
     IN IF cs.worker = "running" /\ cs.cur = k
        THEN cs' = csLoop(cs.queue, ops, cs.started)
        ELSE cs' = [cs EXCEPT !.ops = ops]
  /\ UNCHANGED notCs

CsInit ==
  cs = [queue |-> <<>>, ops |-> <<>>, worker |-> "unstarted", cur |-> 0,
        started |-> <<>>]

CsNext ==
  \/ \E kind \in OpKind : CsSubmit(kind)
  \/ CsWorkerStart
  \/ CsWake
  \/ \E k \in 1..MaxOps : CsOpDone(k)

-----------------------------------------------------------------------------
(* debounceImmediate *)

\* faulty variant: the timer callback does not set isFirstCall again
DiFire_keepsFlag ==
  \E tm \in di.timers :
    /\ di.now >= tm.due
    /\ di' = [di EXCEPT !.timers = @ \ {tm},
                        !.log = Append(@, [kind |-> "fire", t |-> di.now, args |-> tm.args,
                                           lead |-> FALSE])]
    /\ UNCHANGED notDi

\* the wrapper: on a first call fn(...args) at once; then clearTimeout and a
\* new setTimeout(.., delay).  lead: fn was invoked inside this call
DiCall(a) ==
  /\ Cardinality(wrapperCalls(di.log)) < MaxCalls
  /\ LET id == Cardinality(wrapperCalls(di.log)) + 1 IN
     di' = [di EXCEPT
       !.isFirstCall = FALSE,
       !.timers = {tm \in @ : tm.id # di.timeoutId}
                    \cup {[id |-> id, due |-> di.now + di.delay, args |-> a]},
       !.timeoutId = id,
       !.log = Append(@, [kind |-> "call", t |-> di.now, args |-> a,
                          lead |-> di.isFirstCall])]
  /\ UNCHANGED notDi

\* a due timer runs its callback: isFirstCall = true; fn(...args)
DiFire ==
  \E tm \in di.timers :
    /\ di.now >= tm.due
    /\ di' = [di EXCEPT !.isFirstCall = TRUE, !.timers = @ \ {tm},
                        !.log = Append(@, [kind |-> "fire", t |-> di.now, args |-> tm.args,
                                           lead |-> FALSE])]
    /\ UNCHANGED notDi

\* a millisecond passes; a due timer runs before the clock moves on
DiTick ==
  /\ di.now < MaxTime
  /\ \A tm \in di.timers : di.now < tm.due
  /\ di' = [di EXCEPT !.now = @ + 1]
  /\ UNCHANGED notDi

diStart(delay) ==
  [delay |-> delay, now |-> 0, timers |-> {}, timeoutId |-> 0,
   isFirstCall |-> TRUE, log |-> <<>>]

DiInit == \E delay \in 1..MaxDelay : di = diStart(delay)

DiOff == di = diStart(1)

DiNext ==
  \/ \E a \in CallArgs : DiCall(a)
  \/ DiFire
  \/ DiTick

-----------------------------------------------------------------------------
(* throttleLeading *)

\* the wrapper: fn(...args) at once when limit ms have passed since lastCall;
\* otherwise, unless a timer is pending, setTimeout for the rest of the period
TlCall(a) ==
  /\ Cardinality(wrapperCalls(tl.log)) < MaxCalls
  /\ LET called == Append(tl.log, [kind |-> "call", t |-> tl.now, args |-> a]) IN
     IF tl.now - tl.lastCall >= tl.limit
     THEN tl' = [tl EXCEPT !.lastCall = tl.now,
                           !.log = Append(called, [kind |-> "fn", t |-> tl.now, args |-> a])]
     ELSE IF tl.timeoutId = 0
     THEN LET id == Cardinality(wrapperCalls(tl.log)) + 1 IN
          tl' = [tl EXCEPT !.timeoutId = id,
                           !.timers = @ \cup {[id |-> id, args |-> a,
                              due |-> tl.now + (tl.limit - (tl.now - tl.lastCall))]},
                           !.log = called]
     ELSE tl' = [tl EXCEPT !.log = called]
  /\ UNCHANGED notTl

\* a due timer runs its callback: lastCall = Date.now(); timeoutId = null;
\* fn(...args)
TlFire ==
  \E tm \in tl.timers :
    /\ tl.now >= tm.due
    /\ tl' = [tl EXCEPT !.lastCall = tl.now, !.timeoutId = 0, !.timers = @ \ {tm},
                        !.log = Append(@, [kind |-> "fn", t |-> tl.now, args |-> tm.args])]
    /\ UNCHANGED notTl

\* a millisecond passes; a due timer runs before the clock moves on
TlTick ==
  /\ tl.now < MaxDelay + MaxTime
  /\ \A tm \in tl.timers : tl.now < tm.due
  /\ tl' = [tl EXCEPT !.now = @ + 1]
  /\ UNCHANGED notTl

\* lastCall = 0 and timeoutId = null; Date.now() is far more than limit, so
\* the clock starts at MaxDelay
tlStart(limit) ==
  [limit |-> limit, now |-> MaxDelay, lastCall |-> 0, timers |-> {}, timeoutId |-> 0,
   log |-> <<>>]

TlInit == \E limit \in 1..MaxDelay : tl = tlStart(limit)

TlOff == tl = tlStart(1)

TlNext ==
  \/ \E a \in CallArgs : TlCall(a)
  \/ TlFire
  \/ TlTick

-----------------------------------------------------------------------------
(* processInChunks *)

MaxItems == 4

MaxChunk == 3

MaxItemValue == 2

ItemValues == 0..MaxItemValue

\* the arrays handed to processInChunks
ItemArrays == UNION {[1..n -> ItemValues] : n \in 0..MaxItems}

\* the processor of the demonstration: (x) => x * 2
processor(x) == x * 2

\* chunk.map(processor)
map(chunk) == [k \in 1..Len(chunk) |-> processor(chunk[k])]

\* [0, 1, .., items.length - 1]
indexes(items) == [k \in 1..Len(items) |-> k - 1]

\* faulty variant: the element at index `to` is taken too
slice_inclusive(arr, from, to) ==
  SubSeq(arr, from + 1, IF to + 1 < Len(arr) THEN to + 1 ELSE Len(arr))

\* arr.slice(from, to) for 0 <= from <= to: the elements at the indexes
\* from .. min(to, arr.length) - 1
slice(arr, from, to) ==
  SubSeq(arr, from + 1, IF to < Len(arr) THEN to ELSE Len(arr))

\* the body of the for loop at index c.i: the chunk is processed and pushed;
\* then either await yieldToMain(), or i += chunkSize ends the loop and the
\* function returns
loopBody(c) ==
  LET chunk == slice(c.items, c.i, c.i + c.chunkSize) IN
  [c EXCEPT
     !.results = @ \o map(chunk),
     !.calls = @ \o slice(indexes(c.items), c.i, c.i + c.chunkSize),
     !.yields = IF c.i + c.chunkSize < Len(c.items) THEN @ + 1 ELSE @,
     !.i = IF c.i + c.chunkSize < Len(c.items) THEN @ ELSE @ + c.chunkSize,
     !.pc = IF c.i + c.chunkSize < Len(c.items) THEN "yielding" ELSE "done"]

chIdle ==
  [items |-> <<>>, chunkSize |-> 1, i |-> 0, results |-> <<>>, calls |-> <<>>,
   yields |-> 0, pc |-> "idle"]

\* processInChunks(items, processor, chunkSize) is called: it runs up to its
\* first await, or to its return
ChCall(items, chunkSize) ==
  /\ ch.pc = "idle"
  /\ LET c == [chIdle EXCEPT !.items = items, !.chunkSize = chunkSize] IN
     ch' = IF 0 < Len(items) THEN loopBody(c) ELSE [c EXCEPT !.pc = "done"]
  /\ UNCHANGED notCh

\* the promise of yieldToMain() resolves: i += chunkSize and the next pass
ChResume ==
  /\ ch.pc = "yielding"
  /\ ch' = loopBody([ch EXCEPT !.i = @ + ch.chunkSize])
  /\ UNCHANGED notCh

ChInit == ch = chIdle

ChOff == ch = chIdle

ChNext ==
  \/ \E items \in ItemArrays, chunkSize \in 1..MaxChunk : ChCall(items, chunkSize)
  \/ ChResume

-----------------------------------------------------------------------------
(* Specifications: one component runs, the others stay as constructed *)

SchedSpecInit == SchedInit /\ DebOff /\ ThrOff /\ SeqInit /\ LimOff /\ CanInit /\ PsInit /\ PlOff /\ CdOff /\ CtOff /\ CsInit /\ DiOff /\ TlOff /\ ChOff

SchedSpec == SchedSpecInit /\ [][SchedNext]_vars

DebSpecInit == SchedInit /\ DebInit /\ ThrOff /\ SeqInit /\ LimOff /\ CanInit /\ PsInit /\ PlOff /\ CdOff /\ CtOff /\ CsInit /\ DiOff /\ TlOff /\ ChOff

DebSpec == DebSpecInit /\ [][DebNext]_vars

ThrSpecInit == SchedInit /\ DebOff /\ ThrInit /\ SeqInit /\ LimOff /\ CanInit /\ PsInit /\ PlOff /\ CdOff /\ CtOff /\ CsInit /\ DiOff /\ TlOff /\ ChOff

ThrSpec == ThrSpecInit /\ [][ThrNext]_vars

SeqSpecInit == SchedInit /\ DebOff /\ ThrOff /\ SeqInit /\ LimOff /\ CanInit /\ PsInit /\ PlOff /\ CdOff /\ CtOff /\ CsInit /\ DiOff /\ TlOff /\ ChOff

SeqSpec == SeqSpecInit /\ [][SeqNext]_vars

LimSpecInit == SchedInit /\ DebOff /\ ThrOff /\ SeqInit /\ LimInit /\ CanInit /\ PsInit /\ PlOff /\ CdOff /\ CtOff /\ CsInit /\ DiOff /\ TlOff /\ ChOff

LimSpec == LimSpecInit /\ [][LimNext]_vars

CanSpecInit == SchedInit /\ DebOff /\ ThrOff /\ SeqInit /\ LimOff /\ CanInit /\ PsInit /\ PlOff /\ CdOff /\ CtOff /\ CsInit /\ DiOff /\ TlOff /\ ChOff

CanSpec == CanSpecInit /\ [][CanNext]_vars

PsSpecInit == SchedInit /\ DebOff /\ ThrOff /\ SeqInit /\ LimOff /\ CanInit /\ PsInit /\ PlOff /\ CdOff /\ CtOff /\ CsInit /\ DiOff /\ TlOff /\ ChOff

PsSpec == PsSpecInit /\ [][PsNext]_vars

EqSpec == SchedSpecInit /\ [][EqNext]_vars

PlSpecInit == SchedInit /\ DebOff /\ ThrOff /\ SeqInit /\ LimOff /\ CanInit /\ PsInit /\ PlInit /\ CdOff /\ CtOff /\ CsInit /\ DiOff /\ TlOff /\ ChOff

PlSpec == PlSpecInit /\ [][PlNext]_vars

CdSpecInit == SchedInit /\ DebOff /\ ThrOff /\ SeqInit /\ LimOff /\ CanInit /\ PsInit /\ PlOff /\ CdInit /\ CtOff /\ CsInit /\ DiOff /\ TlOff /\ ChOff

CdSpec == CdSpecInit /\ [][CdNext]_vars

CtSpecInit == SchedInit /\ DebOff /\ ThrOff /\ SeqInit /\ LimOff /\ CanInit /\ PsInit /\ PlOff /\ CdOff /\ CtInit /\ CsInit /\ DiOff /\ TlOff /\ ChOff

CtSpec == CtSpecInit /\ [][CtNext]_vars

CsSpecInit == SchedInit /\ DebOff /\ ThrOff /\ SeqInit /\ LimOff /\ CanInit /\ PsInit /\ PlOff /\ CdOff /\ CtOff /\ CsInit /\ DiOff /\ TlOff /\ ChOff

CsSpec == CsSpecInit /\ [][CsNext]_vars

DiSpecInit == SchedInit /\ DebOff /\ ThrOff /\ SeqInit /\ LimOff /\ CanInit /\ PsInit /\ PlOff /\ CdOff /\ CtOff /\ CsInit /\ DiInit /\ TlOff /\ ChOff

DiSpec == DiSpecInit /\ [][DiNext]_vars

TlSpecInit == SchedInit /\ DebOff /\ ThrOff /\ SeqInit /\ LimOff /\ CanInit /\ PsInit /\ PlOff /\ CdOff /\ CtOff /\ CsInit /\ DiOff /\ TlInit /\ ChOff

TlSpec == TlSpecInit /\ [][TlNext]_vars

SchedFairSpec == SchedSpecInit /\ [][SchedLiveNext]_vars /\ SchedFairness

LimFairSpec == LimSpecInit /\ [][LimNext]_vars /\ LimFairness

SeqFairSpec == SeqSpecInit /\ [][SeqNext]_vars /\ SeqFairness

ChSpecInit == SchedInit /\ DebOff /\ ThrOff /\ SeqInit /\ LimOff /\ CanInit /\ PsInit /\ PlOff /\ CdOff /\ CtOff /\ CsInit /\ DiOff /\ TlOff /\ ChInit

ChSpec == ChSpecInit /\ [][ChNext]_vars

-----------------------------------------------------------------------------
(* PriorityScheduler: properties *)

hasStarted(t) == \E i \in 1..Len(started) : started[i] = t

startPos(t) == CHOOSE i \in 1..Len(started) : started[i] = t

prioOf(t) == tasks[t].priority

\* t was handed to schedule() before the i-th dequeue and was still in its lane then
waitingAtDequeue(t, i) ==
  /\ tasks[t].atStarted < i
  /\ \A j \in 1..i : started[j] # t

\* u was waiting in its lane when schedule() was called for t
waitingAtSchedule(u, t) ==
  /\ u < t
  /\ \A j \in 1..tasks[t].atStarted : started[j] # u

\* C1: whenever the scheduler dequeues a task to execute it, every lane of
\* strictly higher priority is empty, whatever schedule() calls and task
\* completions came before.
C1_HigherLanesEmptyAtDequeue ==
  [][Len(started') > Len(started) =>
       \A p \in Priority :
         Rank(p) < Rank(tasks'[started'[Len(started')]].priority) => queues'[p] = <<>>]_vars

\* a task was dequeued ahead of a lower-priority task that had been scheduled
\* before it and was still waiting
C1_Witness ==
  \E i \in 1..Len(started), u \in 1..Len(tasks) :
    /\ u < started[i]
    /\ waitingAtDequeue(u, i)
    /\ Rank(prioOf(u)) > Rank(prioOf(started[i]))

\* C2: within one lane tasks are FIFO: of two tasks scheduled at the same
\* priority the one scheduled first starts executing first, whatever was
\* scheduled at other priorities in between.
C2_FifoWithinLane ==
  /\ \A i, j \in 1..Len(started) :
       (i < j /\ prioOf(started[i]) = prioOf(started[j])) => started[i] < started[j]
  /\ \A t, u \in 1..Len(tasks) :
       (u < t /\ prioOf(u) = prioOf(t) /\ hasStarted(t)) => hasStarted(u)

\* two tasks of one lane waited in it together behind a task of another
\* priority, and both have started
C2_Witness ==
  \E a, b, c \in 1..Len(tasks) :
    /\ a < b /\ b < c
    /\ prioOf(b) = prioOf(c) /\ prioOf(a) # prioOf(b)
    /\ waitingAtSchedule(b, c)
    /\ hasStarted(b) /\ hasStarted(c)

\* C3: tasks of different priorities scheduled back-to-back in one synchronous
\* turn on a fresh, idle scheduler start in priority order: every
\* higher-priority task starts before every lower-priority one, independent of
\* the order of the schedule() calls.
C3_FreshBatchInPriorityOrder ==
  \A t, u \in 1..Len(tasks) :
    (/\ tasks[t].fresh /\ tasks[u].fresh
     /\ Rank(prioOf(t)) < Rank(prioOf(u))
     /\ hasStarted(u))
    => (hasStarted(t) /\ startPos(t) < startPos(u))

\* C4: the step in which a task settles dequeues nothing (the loop yields
\* first), and a task scheduled while a task is running or during the yield
\* starts before every lower-priority task that was waiting at that moment.
C4_YieldThenHigherFirst ==
  /\ [][/\ pc = "running" => started' = started
        /\ started' # started => Len(started') = Len(started) + 1]_vars
  /\ [](\A t, u \in 1..Len(tasks) :
          (/\ tasks[t].atPc \in {"running", "yielding"}
           /\ waitingAtSchedule(u, t)
           /\ Rank(prioOf(t)) < Rank(prioOf(u))
           /\ hasStarted(u))
          => (hasStarted(t) /\ startPos(t) < startPos(u)))

\* a task scheduled during the yield overtook a lower-priority task that was
\* already waiting, and both have run
C4_Witness ==
  \E t, u \in 1..Len(tasks) :
    /\ tasks[t].atPc = "yielding"
    /\ waitingAtSchedule(u, t)
    /\ Rank(prioOf(t)) < Rank(prioOf(u))
    /\ hasStarted(t) /\ hasStarted(u)
    /\ startPos(t) < startPos(u)

-----------------------------------------------------------------------------
(* debounce: properties *)

\* position in dLog of the wrapper call after position i (Len(dLog) + 1: none)
nextCallPos(i) ==
  IF \E j \in wrapperCalls(dLog) : j > i
  THEN CHOOSE j \in wrapperCalls(dLog) :
         j > i /\ \A k \in wrapperCalls(dLog) : k > i => j <= k
  ELSE Len(dLog) + 1

\* the fn invocations that ran after the call at position i and before the next call
firesAfter(i) ==
  {j \in (i + 1)..(nextCallPos(i) - 1) : dLog[j].kind = "fire"}

\* the call at position i is followed by a call less than delay ms later
burstGoesOn(i) ==
  nextCallPos(i) <= Len(dLog) /\ dLog[nextCallPos(i)].t - dLog[i].t < dDelay

\* C5 as stated: in a burst of calls each less than delay ms after the
\* previous one, fn is never invoked during the burst and is invoked exactly
\* once, delay ms after the last call of the burst (the next call, if any,
\* comes delay ms or more after it), with that call's arguments.
C5_OncePerBurst ==
  \A i \in wrapperCalls(dLog) :
    /\ burstGoesOn(i) => firesAfter(i) = {}
    /\ (\/ nextCallPos(i) <= Len(dLog) /\ dLog[nextCallPos(i)].t - dLog[i].t >= dDelay
        \/ nextCallPos(i) > Len(dLog) /\ dNow > dLog[i].t + dDelay)
       => /\ Cardinality(firesAfter(i)) = 1
          /\ \A j \in firesAfter(i) :
               dLog[j].t = dLog[i].t + dDelay /\ dLog[j].args = dLog[i].args

\* C5 (amended): fn is never invoked during the burst; an invocation only
\* ever comes delay ms after the latest call, with its arguments, at most
\* once; and it does come, exactly once, when the burst's last call is
\* followed by more than delay ms without a call.
C5_OnceAfterQuietPeriod ==
  \A i \in wrapperCalls(dLog) :
    /\ burstGoesOn(i) => firesAfter(i) = {}
    /\ Cardinality(firesAfter(i)) <= 1
    /\ \A j \in firesAfter(i) :
         dLog[j].t = dLog[i].t + dDelay /\ dLog[j].args = dLog[i].args
    /\ (\/ nextCallPos(i) <= Len(dLog) /\ dLog[nextCallPos(i)].t - dLog[i].t > dDelay
        \/ nextCallPos(i) > Len(dLog) /\ dNow > dLog[i].t + dDelay)
       => Cardinality(firesAfter(i)) = 1

\* a burst of two calls at different times with different arguments, less
\* than delay ms apart, and then the one invocation, with the second call's
\* arguments
C5_Witness ==
  \E i, j, k \in 1..Len(dLog) :
    /\ i < j /\ k = j + 1 /\ nextCallPos(i) = j
    /\ dLog[i].kind = "call" /\ dLog[j].kind = "call" /\ dLog[k].kind = "fire"
    /\ dLog[i].t < dLog[j].t /\ dLog[j].t - dLog[i].t < dDelay
    /\ dLog[i].args # dLog[j].args /\ dLog[k].args = dLog[j].args
    /\ dNow > dLog[k].t

-----------------------------------------------------------------------------
(* throttle: properties *)

\* C6: with a clock that never goes back, any two invocations of fn through
\* the throttled wrapper are at least limit ms apart.
C6_InvocationsLimitApart ==
  \A i, j \in 1..Len(tLog) :
    (i < j /\ tLog[i].invoked /\ tLog[j].invoked) => tLog[j].t - tLog[i].t >= tLimit

\* fn ran, a later call inside the period was dropped, and fn ran again
C6_Witness ==
  \E i, k, j \in 1..Len(tLog) :
    /\ i < k /\ k < j
    /\ tLog[i].invoked /\ ~tLog[k].invoked /\ tLog[j].invoked
    /\ tLog[k].t > tLog[i].t

-----------------------------------------------------------------------------
(* createSequencer: properties *)

inFlightSeq == {k \in 1..Len(sOps) : sOps[k].status \in {"then", "catch"}}

\* C7: operations start in the order they were submitted and none starts
\* before the previously submitted one has settled: no two operations of a
\* sequencer are in flight together.
C7_InOrderOneAtATime ==
  /\ Cardinality(inFlightSeq) <= 1
  /\ \A i, j \in 1..Len(sStarts) : i < j => sStarts[i] <= sStarts[j]
  /\ \A k \in 2..Len(sOps) :
       sOps[k].status # "waiting" => sOps[k - 1].status \in {"fulfilled", "rejected"}

\* an operation submitted while its predecessor was in flight has started,
\* after the predecessor settled
C7_Witness ==
  \E k \in 2..Len(sOps) :
    /\ sOps[k].busyAtSubmit
    /\ sOps[k].status \in {"then", "catch"}
    /\ Len(sOps) > k

\* C8: the sequencer performs no retries: every submitted operation is
\* invoked exactly once, whether it fulfils or rejects and whatever the
\* previous operation did.
C8_InvokedExactlyOnce ==
  \A k \in 1..Len(sOps) :
    /\ sOps[k].invoked <= 1
    /\ sOps[k].status \in {"fulfilled", "rejected"} => sOps[k].invoked = 1

-----------------------------------------------------------------------------
(* createConcurrencyLimiter: properties *)

inFlightLim == {k \in 1..Len(lOps) : lOps[k].status = "inflight"}

\* C9: the number of operations started and not yet settled never exceeds
\* limit, and the running counter always equals that number.
C9_RunningCountsInFlight ==
  /\ Cardinality(inFlightLim) <= lLimit
  /\ lRunning = Cardinality(inFlightLim)

\* limit operations are in flight, one waits in the queue, and one has
\* completed before
C9_Witness ==
  /\ lLimit >= 1
  /\ Cardinality(inFlightLim) = lLimit
  /\ Len(lQueue) > 0
  /\ \E k \in 1..Len(lOps) : lOps[k].status \in {"resolved", "rejected"}

-----------------------------------------------------------------------------
(* makeCancelable: properties *)

\* C10: when cancel() was called before the settlement was delivered the
\* wrapper rejects with {isCanceled: true}, whether the underlying promise
\* fulfilled or rejected; otherwise (never cancelled, or only after delivery)
\* it settles as the underlying promise did.
C10_CancelBeforeDelivery ==
  \A i \in Promises :
    cWrapper[i].state # "pending" =>
      IF cCancelsAtDelivery[i] > 0
      THEN cWrapper[i] = canceledRejection
      ELSE /\ cUnder[i].state = "fulfilled" =>
                cWrapper[i] = [state |-> "resolved", val |-> cUnder[i].val]
           /\ cUnder[i].state = "rejected" =>
                cWrapper[i] = [state |-> "rejected", val |-> cUnder[i].val]

\* one wrapper was cancelled before a rejection was delivered, another was
\* cancelled only after its value was delivered
C10_Witness ==
  \E i, j \in Promises :
    /\ cUnder[i].state = "rejected" /\ cCancelsAtDelivery[i] > 0
    /\ cWrapper[i] = canceledRejection
    /\ cUnder[j].state = "fulfilled" /\ cCancelsAtDelivery[j] = 0 /\ cCancels[j] > 0
    /\ cWrapper[j].state = "resolved"

-----------------------------------------------------------------------------
(* priority-scheduler (ClojureScript): properties *)

psTakePos(t) == CHOOSE i \in 1..Len(ps.taken) : ps.taken[i] = t

psIsTaken(t) == \E i \in 1..Len(ps.taken) : ps.taken[i] = t

psRank(t) == CHOOSE i \in 1..Len(priorityChannels) : priorityChannels[i] = ps.tasks[t].priority

\* task u sat in its channel when the worker took task t
psWaitingAtTake(u, t) ==
  /\ u # t
  /\ ps.tasks[u].atTaken < psTakePos(t)
  /\ psIsTaken(u) => psTakePos(u) > psTakePos(t)

\* C11: whenever the worker takes a task while other tasks sit in the priority
\* channels, no waiting task has a higher priority than the one taken; hence
\* tasks queued before the worker first runs execute in priority order
\* (immediate, high, normal, low, idle), whatever the order they were queued in.
C11_TakesHighestWaiting ==
  /\ \A t, u \in 1..Len(ps.tasks) :
        (psIsTaken(t) /\ psWaitingAtTake(u, t)) => psRank(t) <= psRank(u)
  /\ \A i, j \in 1..Len(ps.started) :
        (/\ i < j
         /\ ps.tasks[ps.started[i]].atWorker = "unstarted"
         /\ ps.tasks[ps.started[j]].atWorker = "unstarted")
        => psRank(ps.started[i]) <= psRank(ps.started[j])
  /\ ps.started = SubSeq(ps.taken, 1, Len(ps.started))

\* three tasks queued in reverse priority order before the worker ran, executed
\* highest priority first
C11_Witness ==
  /\ Len(ps.tasks) = 3
  /\ \A i \in 1..3 : ps.tasks[i].atWorker = "unstarted"
  /\ psRank(1) > psRank(2) /\ psRank(2) > psRank(3)
  /\ ps.started = <<3, 2, 1>>

-----------------------------------------------------------------------------
(* the two schedulers compared: properties *)

eqAllExecuted ==
  /\ Len(started) = Len(tasks)
  /\ Len(ps.started) = Len(ps.tasks)

\* C12: given the same schedule calls in one synchronous turn on fresh
\* schedulers, PriorityScheduler and priority-scheduler have executed the tasks
\* in the same order once both have executed them all.
C12_SameExecutionOrder == eqAllExecuted => started = ps.started

-----------------------------------------------------------------------------
(* parallel-limit: properties *)

\* C13: the value emitted on the result channel holds, for every operation,
\* that operation's result at the index of its position; nothing is emitted
\* before every operation has completed.
C13_EmitsAllResults ==
  pl.emitted =>
     /\ Len(pl.value) = pl.n
     /\ \A idx \in 0..(pl.n - 1) : pl.value[idx + 1] = resultOf(idx)

-----------------------------------------------------------------------------
(* debounce (ClojureScript): properties *)

cdIsIn(i) == cd.log[i].kind = "in"

cdIsOut(i) == cd.log[i].kind = "out"

\* the last value received before log position j (0: none)
cdLastInBefore(j) ==
  IF \E i \in 1..(j - 1) : cdIsIn(i)
  THEN CHOOSE i \in 1..(j - 1) : cdIsIn(i) /\ \A k \in (i + 1)..(j - 1) : ~cdIsIn(k)
  ELSE 0

\* C14: every value put on the output channel is the most recent value
\* received from the input channel, put at least ms after it was received with
\* no value received in between; inputs received less than ms apart have no
\* output between them, and two outputs always have an input between them.
C14_EmitsAfterQuietMs ==
  /\ \A j \in 1..Len(cd.log) : cdIsOut(j) =>
        LET i == cdLastInBefore(j) IN
        /\ i # 0
        /\ cd.log[j].val = cd.log[i].val
        /\ cd.log[j].t - cd.log[i].t >= cd.ms
  /\ \A i, k \in 1..Len(cd.log) :
        (cdIsIn(i) /\ cdIsIn(k) /\ i < k /\ cd.log[k].t - cd.log[i].t < cd.ms)
        => \A j \in i..k : ~cdIsOut(j)
  /\ \A j, k \in 1..Len(cd.log) :
        (cdIsOut(j) /\ cdIsOut(k) /\ j < k) => \E i \in j..k : cdIsIn(i)

\* two values received less than ms apart, then the later one put on the
\* output channel
C14_Witness ==
  \E i, k, j \in 1..Len(cd.log) :
     /\ i < k /\ k < j
     /\ cdIsIn(i) /\ cdIsIn(k) /\ cdIsOut(j)
     /\ cd.log[k].t - cd.log[i].t < cd.ms
     /\ cd.log[k].t > cd.log[i].t
     /\ cd.log[i].val # cd.log[k].val
     /\ cd.log[j].val = cd.log[k].val

-----------------------------------------------------------------------------
(* throttle (ClojureScript): properties *)

ctIsOut(i) == ct.log[i].kind = "out"

\* C15: any two values delivered on the output channel are at least ms apart,
\* however fast the producer puts values on the input channel.
C15_DeliveriesMsApart ==
  \A i, j \in 1..Len(ct.log) :
     (ctIsOut(i) /\ ctIsOut(j) /\ i < j) => ct.log[j].t - ct.log[i].t >= ct.ms

\* two deliveries, the second as early as the loop allows, with the producer
\* offering the second value at the instant the first was delivered
C15_Witness ==
  \E i, k, j \in 1..Len(ct.log) :
     /\ i < k /\ k < j
     /\ ctIsOut(i) /\ ct.log[k].kind = "in" /\ ctIsOut(j)
     /\ ct.log[j].t - ct.log[i].t = ct.ms
     /\ ct.ms > 1

-----------------------------------------------------------------------------
(* sequencer (ClojureScript): properties *)

csRunning == {k \in 1..Len(cs.ops) : cs.ops[k].status = "running"}

\* C16: the worker calls the operations one at a time in the order they were
\* queued; operation k+1 is not called before the result of operation k is on
\* its result channel; every result channel gets one value, never more, and is
\* closed right after it.
C16_InOrderOneResultEach ==
  /\ cs.started = [i \in 1..Len(cs.started) |-> i]
  /\ Cardinality(csRunning) <= 1
  /\ \A i \in 2..Len(cs.started) : cs.ops[i - 1].puts = 1
  /\ \A k \in 1..Len(cs.ops) :
        /\ cs.ops[k].puts <= 1
        /\ cs.ops[k].closed <=> cs.ops[k].puts = 1
        /\ cs.ops[k].status = "done" <=> cs.ops[k].closed

\* three operations queued while the first one ran, all completed, of which
\* one yielded a value, one yielded nil and one threw
C16_Witness ==
  /\ Len(cs.ops) = 3
  /\ \A k \in 1..3 : cs.ops[k].status = "done"
  /\ {cs.ops[k].kind : k \in 1..3} = OpKind
  /\ cs.ops[1].kind = "value"

-----------------------------------------------------------------------------
(* debounceImmediate: properties *)

diCalls == wrapperCalls(di.log)

\* position in di.log of the call after position i (Len + 1: none)
diNextCall(i) ==
  IF \E j \in diCalls : j > i
  THEN CHOOSE j \in diCalls : j > i /\ \A k \in diCalls : k > i => j <= k
  ELSE Len(di.log) + 1

\* position of the call before position i (0: none)
diPrevCall(i) ==
  IF \E j \in diCalls : j < i
  THEN CHOOSE j \in diCalls : j < i /\ \A k \in diCalls : k < i => k <= j
  ELSE 0

\* the trailing invocations after the call at position i and before the next call
diFiresAfter(i) == {j \in (i + 1)..(diNextCall(i) - 1) : di.log[j].kind = "fire"}

diBurstGoesOn(i) ==
  diNextCall(i) <= Len(di.log) /\ di.log[diNextCall(i)].t - di.log[i].t < di.delay

\* the call at position i opens a burst: no call came less than delay ms before it
diFirstOfBurst(i) ==
  diPrevCall(i) = 0 \/ di.log[i].t - di.log[diPrevCall(i)].t >= di.delay

\* C17 as stated: fn is invoked synchronously on the first call of every burst
\* and on no later call of it; there is no trailing invocation during the
\* burst and exactly one, delay ms after the burst's last call with that call's
\* arguments (the next call, if any, comes delay ms or more after it).
C17_LeadingAndTrailingPerBurst ==
  \A i \in diCalls :
    /\ di.log[i].lead <=> diFirstOfBurst(i)
    /\ diBurstGoesOn(i) => diFiresAfter(i) = {}
    /\ (\/ diNextCall(i) <= Len(di.log) /\ di.log[diNextCall(i)].t - di.log[i].t >= di.delay
        \/ diNextCall(i) > Len(di.log) /\ di.now > di.log[i].t + di.delay)
       => /\ Cardinality(diFiresAfter(i)) = 1
          /\ \A j \in diFiresAfter(i) :
               di.log[j].t = di.log[i].t + di.delay /\ di.log[j].args = di.log[i].args

\* C17 (amended): fn is invoked synchronously exactly on the calls that are
\* the first ever or the first after a trailing invocation: never on a call
\* less than delay ms after the previous one, always on a call more than delay
\* ms after it.  A trailing invocation comes only delay ms after the latest
\* call, with its arguments, at most once, never during the burst, and exactly
\* once when the call is followed by more than delay ms without a call.
C17_LeadingAfterTrailing ==
  \A i \in diCalls :
    /\ di.log[i].lead <=> (diPrevCall(i) = 0 \/ diFiresAfter(diPrevCall(i)) # {})
    /\ (diPrevCall(i) # 0 /\ di.log[i].t - di.log[diPrevCall(i)].t < di.delay)
       => ~di.log[i].lead
    /\ (diPrevCall(i) # 0 /\ di.log[i].t - di.log[diPrevCall(i)].t > di.delay)
       => di.log[i].lead
    /\ diBurstGoesOn(i) => diFiresAfter(i) = {}
    /\ Cardinality(diFiresAfter(i)) <= 1
    /\ \A j \in diFiresAfter(i) :
         di.log[j].t = di.log[i].t + di.delay /\ di.log[j].args = di.log[i].args
    /\ (\/ diNextCall(i) <= Len(di.log) /\ di.log[diNextCall(i)].t - di.log[i].t > di.delay
        \/ diNextCall(i) > Len(di.log) /\ di.now > di.log[i].t + di.delay)
       => Cardinality(diFiresAfter(i)) = 1

\* a burst of two calls: fn invoked in the first, not in the second, then the
\* trailing invocation with the second call's arguments, and a later call that
\* is treated as a first call again
C17_Witness ==
  \E i, j, k, l \in 1..Len(di.log) :
    /\ j = diNextCall(i) /\ k = j + 1 /\ l = k + 1
    /\ di.log[i].kind = "call" /\ di.log[j].kind = "call"
    /\ di.log[k].kind = "fire" /\ di.log[l].kind = "call"
    /\ di.log[i].lead /\ ~di.log[j].lead /\ di.log[l].lead
    /\ di.log[i].t < di.log[j].t
    /\ di.log[i].args # di.log[j].args /\ di.log[k].args = di.log[j].args

-----------------------------------------------------------------------------
(* throttleLeading: properties *)

\* C18: any two invocations of fn, made directly by a call or by the trailing
\* timer, are at least limit ms apart.
C18_InvocationsLimitApart ==
  \A i, j \in 1..Len(tl.log) :
     (i < j /\ tl.log[i].kind = "fn" /\ tl.log[j].kind = "fn")
     => tl.log[j].t - tl.log[i].t >= tl.limit

-----------------------------------------------------------------------------
(* PriorityScheduler: one loop, no lost wake-up *)

\* the tasks whose execute() was called and whose promise has not settled
executing == {i \in 1..Len(tasks) : hasStarted(i) /\ outcome[i] = "pending"}

\* C19: at most one processing loop is active and at most one task is
\* executing, whatever schedule() calls are made while a task runs or while the
\* loop yields; isProcessing says whether the loop is active.
C19_OneLoopOneTask ==
  /\ activeLoops <= 1
  /\ Cardinality(executing) <= 1
  /\ isProcessing <=> activeLoops = 1

\* a task is executing, one schedule() call was made while an earlier task ran
\* and one while the loop was yielding
C19_Witness ==
  /\ Cardinality(executing) = 1
  /\ activeLoops = 1
  /\ \E i, j \in 1..Len(tasks) : tasks[i].atPc = "running" /\ tasks[j].atPc = "yielding"

\* C20: whenever isProcessing is false every lane is empty; and, every task
\* terminating and finitely many being scheduled, every scheduled task is
\* eventually executed and its promise settles.
C20_NoLostWakeup ==
  /\ [](~isProcessing => queues = emptyQueues)
  /\ \A i \in 1..MaxLiveTasks :
        [](Len(tasks) >= i => <>(hasStarted(i) /\ outcome[i] # "pending"))

\* the loop has ended with every lane empty after executing a task that was
\* scheduled while it was running another one
C20_Witness ==
  /\ ~isProcessing
  /\ queues = emptyQueues
  /\ Len(tasks) = MaxLiveTasks
  /\ \E i \in 1..Len(tasks) : tasks[i].atPc # "idle"
  /\ \A i \in 1..Len(tasks) : hasStarted(i) /\ outcome[i] # "pending"

-----------------------------------------------------------------------------
(* PriorityScheduler: failing tasks *)

\* a task that started before t was rejected
failedBefore(t) ==
  \E j \in 1..(startPos(t) - 1) : outcome[started[j]] = "rejected"

loopGoesOnAfterFailure ==
  /\ \A i \in 1..Len(tasks) :
       /\ (tasks[i].kind = "throws" /\ hasStarted(i)) => outcome[i] = "rejected"
       /\ outcome[i] # "pending" => hasStarted(i)
  /\ (\E p \in Priority : queues[p] # <<>>) => (isProcessing /\ pc # "idle")
  /\ \A t, u \in 1..Len(tasks) :
       (hasStarted(t) /\ failedBefore(t) /\ waitingAtDequeue(u, startPos(t)))
       => \/ Rank(prioOf(t)) < Rank(prioOf(u))
          \/ prioOf(t) = prioOf(u) /\ t < u

\* C21: a step settles at most the promise of the task whose execute() it ran
\* or awaited, so a throw or rejection rejects only that task's own promise and
\* a success resolves it; a task that throws is rejected; no task is settled
\* before it was executed; while a lane holds a task the loop stays active;
\* and the tasks dequeued after a failure still come highest lane first, FIFO
\* within a lane.
C21_FailureIsolated ==
  /\ [][\A i \in 1..Len(outcome') :
          (outcome'[i] # "pending" /\ (i > Len(outcome) \/ outcome[i] = "pending"))
          => i = started'[Len(started')]]_vars
  /\ [][\A i \in 1..Len(outcome) :
          outcome[i] # "pending" => outcome'[i] = outcome[i]]_vars
  /\ []loopGoesOnAfterFailure

\* the first task was rejected while two others waited; these then ran, the
\* higher-priority one first although scheduled last, and it resolved
C21_Witness ==
  /\ Len(tasks) = 3
  /\ outcome[1] = "rejected"
  /\ waitingAtSchedule(2, 3)
  /\ Rank(prioOf(3)) < Rank(prioOf(2))
  /\ started = <<1, 3, 2>>
  /\ outcome[3] = "resolved"

-----------------------------------------------------------------------------
(* createConcurrencyLimiter: start order, work conservation, failures *)

\* C22: operations start in the order they were submitted: an operation that
\* has started was preceded by the start of every operation submitted before
\* it, whatever the interleaving of submissions and completions.
C22_StartsInSubmissionOrder ==
  \A j, k \in 1..Len(lOps) :
    (j < k /\ lOps[k].order > 0) => (lOps[j].order > 0 /\ lOps[j].order < lOps[k].order)

\* three operations have started, the last two after waiting in the queue
\* together
C22_Witness ==
  /\ Len(lOps) = 3
  /\ lOps[2].waited /\ lOps[3].waited
  /\ \A k \in 1..3 : lOps[k].order = k
  /\ \E k \in 1..3 : lOps[k].status = "inflight"

settledLim(st) == st \in {"resolved", "rejected"}

\* C23: with limit >= 1, whenever an operation waits in the queue exactly limit
\* operations are in flight; when none is in flight the queue is empty and
\* running is 0; and, the operations in flight settling, every submitted
\* operation eventually starts.
C23_WorkConserving ==
  /\ [](lLimit >= 1 =>
          /\ lQueue # <<>> => Cardinality(inFlightLim) = lLimit
          /\ inFlightLim = {} => (lQueue = <<>> /\ lRunning = 0)
          /\ (\A k \in 1..Len(lOps) : settledLim(lOps[k].status))
               => (lQueue = <<>> /\ lRunning = 0))
  /\ \A k \in 1..MaxOps :
        []((lLimit >= 1 /\ Len(lOps) >= k) => <>(Len(lOps) >= k /\ lOps[k].order > 0))

\* every operation has settled, one of them after waiting in the queue; the
\* queue is empty and running is 0
C23_Witness ==
  /\ lLimit >= 1
  /\ Len(lOps) = MaxOps
  /\ \A k \in 1..Len(lOps) : settledLim(lOps[k].status)
  /\ \E k \in 1..Len(lOps) : lOps[k].waited
  /\ lQueue = <<>> /\ lRunning = 0

slotsGivenBack ==
  /\ lRunning = Cardinality(inFlightLim)
  /\ (lLimit >= 1 /\ lQueue # <<>>) => Cardinality(inFlightLim) = lLimit
  /\ \A k \in 1..Len(lOps) :
       /\ (lOps[k].throws /\ lOps[k].order > 0) <=>
             (lOps[k].throws /\ lOps[k].status = "rejected")
       /\ lOps[k].throws => lOps[k].status # "resolved"
       /\ settledLim(lOps[k].status) => lOps[k].order > 0

\* C24: an operation that rejects or throws gives its slot back as a
\* successful one does: running still counts the operations in flight and a
\* waiting operation takes the slot; a step settles the promise of at most one
\* awaited operation, the one whose operation() settled; an operation that
\* throws rejects its own promise and nothing is settled before it started.
C24_FailureReleasesSlot ==
  /\ [][\A j, k \in 1..Len(lOps) :
          /\ (settledLim(lOps'[k].status) /\ ~settledLim(lOps[k].status) /\ ~lOps[k].throws)
             => lOps[k].status = "inflight"
          /\ (/\ settledLim(lOps'[k].status) /\ ~settledLim(lOps[k].status) /\ ~lOps[k].throws
              /\ settledLim(lOps'[j].status) /\ ~settledLim(lOps[j].status) /\ ~lOps[j].throws)
             => j = k
          /\ settledLim(lOps[k].status) => lOps'[k].status = lOps[k].status]_vars
  /\ []slotsGivenBack

\* an awaited operation rejected, the operation waiting behind it took the
\* slot and resolved, and an operation that threw was rejected
C24_Witness ==
  /\ lLimit = 1
  /\ Len(lOps) = 3
  /\ ~lOps[1].throws /\ lOps[1].status = "rejected"
  /\ lOps[2].waited /\ lOps[2].status = "resolved"
  /\ lOps[3].throws /\ lOps[3].status = "rejected"
  /\ lRunning = 0

-----------------------------------------------------------------------------
(* createSequencer: failing operations *)

settledSeq(k) == sOps[k].status \in {"fulfilled", "rejected"}

\* an operation is invoked only after the one before it has settled, and in
\* submission order
chainNotBlocked ==
  /\ \A k \in 1..Len(sOps) : settledSeq(k) => sOps[k].invoked >= 1
  /\ \A k \in 2..Len(sOps) : sOps[k].invoked >= 1 => settledSeq(k - 1)
  /\ \A i, j \in 1..Len(sStarts) : i < j => sStarts[i] <= sStarts[j]

\* the returned promise settles as the execution of its operation ended
ownOutcome ==
  \A k \in 1..Len(sOps) : settledSeq(k) => sOps[k].status = sOps[k].first

\* C25: a rejected operation does not block the chain: every operation is
\* executed in the end, those submitted after a failed one included, in
\* submission order and only after the one before it has settled; the promise
\* returned for an operation settles with the outcome of the operation's
\* execution (an operation that failed rejects its promise).
C25_RejectionDoesNotBlock ==
  /\ []chainNotBlocked
  /\ []ownOutcome
  /\ \A k \in 1..MaxOps :
        [](Len(sOps) >= k => <>(Len(sOps) >= k /\ sOps[k].invoked >= 1))

-----------------------------------------------------------------------------
(* makeCancelable: cancel() *)

\* a wrapper is pending for as long as its underlying promise is
pendingWithUnderlying ==
  \A i \in Promises : cUnder[i].state = "pending" => cWrapper[i].state = "pending"

\* C26: a call of cancel() sets the flag and leaves the wrapper as it is, and
\* a call on a wrapper whose flag is set changes nothing; the wrapper changes
\* only once the underlying promise has settled, so a wrapper (cancelled or
\* not) around a promise that stays pending stays pending.
C26_CancelOnlySetsFlag ==
  /\ [][\A i \in Promises :
          /\ cCancels'[i] # cCancels[i] =>
                /\ cWrapper' = cWrapper
                /\ cCanceled'[i]
                /\ cCanceled[i] => cCanceled' = cCanceled
          /\ cWrapper'[i] # cWrapper[i] => cUnder[i].state # "pending"]_vars
  /\ []pendingWithUnderlying

\* cancel() was called twice on a wrapper whose underlying promise is pending:
\* the flag is set and the wrapper is pending
C26_Witness ==
  \E i \in Promises :
    /\ cWrapped[i] /\ cCancels[i] >= 2 /\ cCanceled[i]
    /\ cUnder[i].state = "pending"
    /\ cWrapper[i].state = "pending"

-----------------------------------------------------------------------------
(* processInChunks: properties *)

isPrefix(s, t) == Len(s) <= Len(t) /\ s = SubSeq(t, 1, Len(s))

\* C27: whatever the array and the chunk size (>= 1), the results so far are
\* the first items mapped through processor, in order, the processor was
\* called on the indexes 0, 1, 2, .. so far, each once; when the function
\* returns the result is the whole array mapped, of the same length, and the
\* processor was called once on every index.
C27_MapsInOrder ==
  /\ isPrefix(ch.results, map(ch.items))
  /\ isPrefix(ch.calls, indexes(ch.items))
  /\ Len(ch.calls) = Len(ch.results)
  /\ ch.pc = "done" =>
       /\ ch.results = map(ch.items)
       /\ Len(ch.results) = Len(ch.items)
       /\ ch.calls = indexes(ch.items)

\* four items that differ, chunks of three: one yield, a last chunk of one
C27_Witness ==
  /\ ch.pc = "done"
  /\ Len(ch.items) = 4 /\ ch.chunkSize = 3
  /\ ch.items[1] # ch.items[2] /\ ch.items[3] # ch.items[4]
  /\ ch.yields = 1
  /\ Len(ch.results) = 4

====
